---------------------------- MODULE Spec2Model ----------------------------
(***************************************************************************)
(* Model of gofer-cli: the service lifecycle of the polling price Cache    *)
(* (pkg/prices/cache.go) and of the HTTPAgent (pkg/agent/agent.go), and    *)
(* the HTTPAgent's request handlers handlePrice / handlePrices.            *)
(*                                                                         *)
(* One behaviour follows one component instance: inst says whether New     *)
(* (a Cache) or NewHTTPAgent (an HTTPAgent) constructed it.  The two share *)
(* no state in the code; each has its own ctx field and waitCh.            *)
(***************************************************************************)
EXTENDS Integers, Sequences, FiniteSets, TLC

VARIABLES
    inst,          \* "cache" | "agent": the component instance of this run
    cancelled,     \* the context handed to Start has been cancelled (ctx.Done() is closed)
    \* ---- Cache (pkg/prices/cache.go) ----
    cfgPairs,      \* g.pairs: the configured pairs, in order
    cacheCtx,      \* g.ctx: "nil" | "ctx"
    cacheStarts,   \* history: <<argument, result>> of every call of Cache.Start
    cacheTasks,    \* history: number of goroutines Cache.Start has spawned
    tickerStarted, \* g.interval.Start was called
    ticks,         \* number of ticks the broadcaster has taken from TickCh()
    bpc,           \* broadcasterRoutine: "none" | "select" | "update" | "exited"
    bidx,          \* index in g.pairs of the pair the running cycle handles next
    cycCalls,      \* history: pairs requested from the provider in the current cycle
    cycOut,        \* history: outcome of each of these provider calls
    cycLog,        \* history: log entries of the current cycle, <<level, pair>>
    cwpc,          \* Cache.contextCancelHandler: "none" | "waitDone" | "deferred" | "done"
    cacheCh,       \* history of g.waitCh: sequence of <<"send", v>> and <<"close">> events
    \* ---- HTTPAgent lifecycle (pkg/agent/agent.go) ----
    agentCtx,      \* s.ctx: "nil" | "ctx"
    agentStarts,   \* history: <<argument, result>> of every call of HTTPAgent.Start
    agentTasks,    \* history: number of goroutines HTTPAgent.Start has spawned
    routes,        \* patterns registered on http.DefaultServeMux, in order
    spc,           \* server goroutine: "none" | "spawned" | "serving" | "returned"
    crashLogs,     \* number of "HTTP server crashed" error entries
    srvClosed,     \* s.server.Close() has been called
    closeErr,      \* what s.server.Close() returned: "nil" | "err" ("none" before the call)
    awpc,          \* HTTPAgent.contextCancelHandler: "none" | "waitDone" | "send" | "deferred" | "done"
    agentCh,       \* history of s.waitCh: sequence of <<"send", v>> and <<"close">> events
    \* ---- tasks receiving from Wait() ----
    waiters,       \* [Waiters -> "idle" | "recv" | "nil" | "err" | "closed"]
    \* ---- one HTTP request in the handlers (pkg/agent/agent.go) ----
    req,           \* the request: [path, ctype, body]
    handler,       \* the handler the mux dispatched to
    rpc,           \* position in the handler: "idle" | "check" | "decode" | "provider"
                   \*   | "hook" | "single" | "write" | "flush" | "done"
    resp,          \* the response: [status, body]; status 0: header not yet written
    bodyRead,      \* the handler has read r.Body
    calls,         \* history: calls to provider, hook and marshaller, in order
    rpairs,        \* the decoded pairs of the request
    prices,        \* the mapping the provider returned
    toWrite,       \* pairs of `prices` the range loop has not visited yet
    \* ---- the marshaller shared by all requests of an HTTPAgent ----
    mformat,       \* "ndjson": Write emits the record; "json": Write holds it until Flush
    mbuf,          \* records the marshaller holds until Flush: sequence of [w, chunk]
    \* ---- concurrent multi-pair requests of one HTTPAgent ----
    creq,          \* [ConcReqs -> [pc, prices, toWrite, written, resp, flushed, dropped]]
    \* ---- a second HTTPAgent instance in the same process ----
    a2Ctx,         \* its s.ctx: "nil" | "ctx"
    a2Starts,      \* history: <<argument, result>> of every call of its Start
    a2Tasks,       \* history: number of goroutines its Start has spawned
    \* ---- the Cache's snapshot ----
    cachePrices,   \* g.prices: pair -> number of the tick whose price is held
    \* ---- the pairs command (cmd/gofer/cmd_pairs.go) ----
    cpc,           \* position in RunE: "none" | "parse" | "models" | "write" | "cancel"
                   \*   | "wait" | "report" | "flush" | "returned"
    cerr,          \* the named result err: "nil" or the error it holds
    exitCode,      \* the process exit code
    cmodels,       \* models the range loop has not written yet
    cmdLog,        \* history: what RunE and its deferred calls did, <<event, detail>>
    \* ---- the agent command (cmd/gofer/cmd_agent.go) ----
    agentCmdPc,    \* position in RunE: "none" | "start" | "waitServices" | "waitAgent"
                   \*   | "returned"
    agentCmdRet,   \* what RunE returned: "nil" or an error ("none" before it returns)
    svcPc,         \* the client services: "none" | "running" | "stopping" | "ended"
    svcErr         \* what their Wait() channel yields: "nil" | "err" ("none" before they end)

lifeVars == <<inst, cancelled, cfgPairs, cacheCtx, cacheStarts, cacheTasks,
              tickerStarted, ticks, bpc, bidx, cycCalls, cycOut, cycLog, cwpc,
              cacheCh, agentCtx, agentStarts, agentTasks, routes, spc,
              crashLogs, srvClosed, closeErr, awpc, agentCh, waiters>>

cacheVars == <<cfgPairs, cacheCtx, cacheStarts, cacheTasks, tickerStarted,
               ticks, bpc, bidx, cycCalls, cycOut, cycLog, cwpc, cacheCh>>

agentVars == <<agentCtx, agentStarts, agentTasks, routes, spc, crashLogs,
               srvClosed, closeErr, awpc, agentCh>>

reqVars == <<req, handler, rpc, resp, bodyRead, calls, rpairs, prices, toWrite>>

marshVars == <<mformat, mbuf>>

concVars == <<creq>>

twoVars == <<a2Ctx, a2Starts, a2Tasks>>

snapVars == <<cachePrices>>

cmdVars == <<cpc, cerr, exitCode, cmodels, cmdLog>>

\* What neither the lifecycle nor the handling of a single request touches.
agentCmdVars == <<agentCmdPc, agentCmdRet, svcPc, svcErr>>

sideVars == <<concVars, twoVars, snapVars, cmdVars, agentCmdVars>>

extVars == <<marshVars, sideVars>>

vars == <<lifeVars, reqVars, extVars>>

---------------------------------------------------------------------------
(* Bounds *)

MaxStarts == 3      \* calls of Start per instance
MaxTicks == 2       \* ticks taken by the broadcaster loop
MaxPairs == 2       \* length of the configured pair list
MaxModels == 3      \* models the provider returns to the pairs command
MaxFairPairs == 1   \* the same, in the runs checked under fairness

---------------------------------------------------------------------------
(* Data *)

Waiters == {"w1", "w2"}

\* provider.Pair: an ordered pair of asset symbols.
Pair(b, q) == [Base |-> b, Quote |-> q]
PairAB == Pair("A", "B")
PairCD == Pair("C", "D")
EmptyPair == Pair("", "")
CfgPairSet == {PairAB, PairCD}

\* Sequences over S of length at most n.
SeqsUpTo(S, n) == UNION {[1..k -> S] : k \in 0..n}

\* Arguments Start can be called with: a nil context or the context.
CtxArgs == {"nil", "ctx"}

ErrOnce == "service can be started only once"
ErrNilCtx == "context must not be nil"

\* Channel history helpers.
Closed(ch) == \E i \in 1..Len(ch) : ch[i] = <<"close">>
NumCloses(ch) == Cardinality({i \in 1..Len(ch) : ch[i] = <<"close">>})
NumSends(ch) == Cardinality({i \in 1..Len(ch) : ch[i][1] = "send"})

\* A waiter that has received: a sent value, or the zero value of a closed channel.
Received(w) == waiters[w] \in {"nil", "err", "closed"}
\* The error value a waiter that received observes (a closed channel yields nil).
Observed(w) == IF waiters[w] = "closed" THEN "nil" ELSE waiters[w]

---------------------------------------------------------------------------
(* Cache *)

\* Faulty variant of CacheStartCheck: the started marker is not consulted.
CacheStartCheckNoOnce(cur, c) ==
    IF c = "nil" THEN ErrNilCtx ELSE "ok"

\* Cache.Start, the two guards.
CacheStartCheck(cur, c) ==
    IF cur # "nil" THEN ErrOnce
    ELSE IF c = "nil" THEN ErrNilCtx
    ELSE "ok"

\* Cache.Start(c)
CacheStart(c) ==
    /\ inst = "cache"
    /\ Len(cacheStarts) < MaxStarts
    /\ LET res == CacheStartCheck(cacheCtx, c) IN
       /\ cacheStarts' = Append(cacheStarts, <<c, res>>)
       /\ IF res = "ok"
          THEN /\ cacheCtx' = c
               /\ tickerStarted' = TRUE
               /\ bpc' = "select"
               /\ cwpc' = "waitDone"
               /\ cacheTasks' = cacheTasks + 2
          ELSE UNCHANGED <<cacheCtx, tickerStarted, bpc, cwpc, cacheTasks>>
    /\ UNCHANGED <<inst, cancelled, cfgPairs, ticks, bidx, cycCalls, cycOut,
                   cycLog, cacheCh, agentVars, waiters>>
    /\ UNCHANGED reqVars
    /\ UNCHANGED extVars

\* Outcomes of priceProvider.Price(pair): a usable tick, a failed call, or a
\* tick whose Error field is not empty.
PriceOutcomes == {"ok", "fail", "tickError"}

\* Faulty variant of Update: the tick's error marker is not looked at.
UpdateIgnoresTickError(out) ==
    IF out = "fail" THEN "err" ELSE "nil"

\* Cache.update: the error it returns for a provider outcome ("nil": none).
Update(out) ==
    IF out = "fail" THEN "err"
    ELSE IF out = "tickError" THEN "err"
    ELSE "nil"

\* The log entry of the loop body for a pair, given update's error.
CycleLogEntry(pair, err) ==
    IF err # "nil" THEN <<"warn", pair>> ELSE <<"info", pair>>

\* broadcasterRoutine: case <-g.ctx.Done(): return
BroadcasterDone ==
    /\ inst = "cache"
    /\ bpc = "select"
    /\ cancelled
    /\ bpc' = "exited"
    /\ UNCHANGED <<inst, cancelled, cfgPairs, cacheCtx, cacheStarts, cacheTasks,
                   tickerStarted, ticks, bidx, cycCalls, cycOut, cycLog, cwpc,
                   cacheCh, agentVars, waiters>>
    /\ UNCHANGED reqVars
    /\ UNCHANGED extVars

\* broadcasterRoutine: case <-g.interval.TickCh(): a cycle begins.  select
\* may take this case also when the context is already cancelled.
BroadcasterTick ==
    /\ inst = "cache"
    /\ bpc = "select"
    /\ tickerStarted
    /\ ticks < MaxTicks
    /\ ticks' = ticks + 1
    /\ bidx' = 1
    /\ cycCalls' = <<>>
    /\ cycOut' = <<>>
    /\ cycLog' = <<>>
    /\ bpc' = IF Len(cfgPairs) = 0 THEN "select" ELSE "update"
    /\ UNCHANGED <<inst, cancelled, cfgPairs, cacheCtx, cacheStarts, cacheTasks,
                   tickerStarted, cwpc, cacheCh, agentVars, waiters>>
    /\ UNCHANGED reqVars
    /\ UNCHANGED extVars

\* broadcasterRoutine: one iteration of `for _, pair := range g.pairs`.
\* update builds a median.Price from the tick in a local variable and
\* returns; nothing assigns g.prices, so cachePrices stays as New left it.
BroadcasterUpdate(out) ==
    /\ inst = "cache"
    /\ bpc = "update"
    /\ LET pair == cfgPairs[bidx]
           err == Update(out)
       IN /\ cycCalls' = Append(cycCalls, pair)
          /\ cycOut' = Append(cycOut, out)
          /\ cycLog' = Append(cycLog, CycleLogEntry(pair, err))
    /\ bidx' = bidx + 1
    /\ bpc' = IF bidx + 1 > Len(cfgPairs) THEN "select" ELSE "update"
    /\ UNCHANGED <<inst, cancelled, cfgPairs, cacheCtx, cacheStarts, cacheTasks,
                   tickerStarted, ticks, cwpc, cacheCh, agentVars, waiters>>
    /\ UNCHANGED reqVars
    /\ UNCHANGED extVars

\* Cache.contextCancelHandler: <-g.ctx.Done() returns.
CacheWatcherObserve ==
    /\ inst = "cache"
    /\ cwpc = "waitDone"
    /\ cancelled
    /\ cwpc' = "deferred"
    /\ UNCHANGED <<inst, cancelled, cfgPairs, cacheCtx, cacheStarts, cacheTasks,
                   tickerStarted, ticks, bpc, bidx, cycCalls, cycOut, cycLog,
                   cacheCh, agentVars, waiters>>
    /\ UNCHANGED reqVars
    /\ UNCHANGED extVars

\* Faulty variant of CacheWatcherClose: the watcher returns without closing g.waitCh.
CacheWatcherNoClose ==
    /\ inst = "cache"
    /\ cwpc = "deferred"
    /\ cwpc' = "done"
    /\ UNCHANGED <<inst, cancelled, cfgPairs, cacheCtx, cacheStarts, cacheTasks,
                   tickerStarted, ticks, bpc, bidx, cycCalls, cycOut, cycLog,
                   cacheCh, agentVars, waiters>>
    /\ UNCHANGED reqVars
    /\ UNCHANGED extVars

\* Cache.contextCancelHandler: the deferred calls, ending with close(g.waitCh).
CacheWatcherClose ==
    /\ inst = "cache"
    /\ cwpc = "deferred"
    /\ cacheCh' = Append(cacheCh, <<"close">>)
    /\ cwpc' = "done"
    /\ UNCHANGED <<inst, cancelled, cfgPairs, cacheCtx, cacheStarts, cacheTasks,
                   tickerStarted, ticks, bpc, bidx, cycCalls, cycOut, cycLog,
                   agentVars, waiters>>
    /\ UNCHANGED reqVars
    /\ UNCHANGED extVars

---------------------------------------------------------------------------
(* HTTPAgent lifecycle *)

\* Faulty variant of AgentStartCheck: the nil check is missing.
AgentStartCheckNoNil(cur, c) ==
    IF cur # "nil" THEN ErrOnce ELSE "ok"

\* HTTPAgent.Start, the two guards.
AgentStartCheck(cur, c) ==
    IF cur # "nil" THEN ErrOnce
    ELSE IF c = "nil" THEN ErrNilCtx
    ELSE "ok"

\* The patterns initServer registers, in order.
AgentPatterns == <<"/", "/price", "/prices">>

\* http.HandleFunc panics when the pattern is already registered on the mux.
Registered(rs, p) == \E i \in 1..Len(rs) : rs[i] = p

\* HTTPAgent.initServer: the mux after the registrations, or "panic".
InitServer(rs) ==
    IF \E i \in 1..Len(AgentPatterns) : Registered(rs, AgentPatterns[i])
    THEN "panic"
    ELSE rs \o AgentPatterns

\* HTTPAgent.Start(c)
AgentStart(c) ==
    /\ inst = "agent"
    /\ Len(agentStarts) < MaxStarts
    /\ LET res == AgentStartCheck(agentCtx, c)
           mux == InitServer(routes)
       IN IF res # "ok"
          THEN /\ agentStarts' = Append(agentStarts, <<c, res>>)
               /\ UNCHANGED <<agentCtx, routes, spc, awpc, agentTasks>>
          ELSE IF mux = "panic"
          THEN /\ agentStarts' = Append(agentStarts, <<c, "panic">>)
               /\ agentCtx' = c
               /\ UNCHANGED <<routes, spc, awpc, agentTasks>>
          ELSE /\ agentStarts' = Append(agentStarts, <<c, "ok">>)
               /\ agentCtx' = c
               /\ routes' = mux
               /\ spc' = "spawned"
               /\ awpc' = "waitDone"
               /\ agentTasks' = agentTasks + 2
    /\ UNCHANGED <<inst, cancelled, cacheVars, crashLogs, srvClosed, closeErr,
                   agentCh, waiters>>
    /\ UNCHANGED reqVars
    /\ UNCHANGED extVars

\* Faulty variant of ServerListen: a failed bind also closes s.waitCh.
ServerListenCrashCloses(ok) ==
    /\ inst = "agent"
    /\ spc = "spawned"
    /\ IF srvClosed
       THEN /\ spc' = "returned"
            /\ UNCHANGED <<crashLogs, agentCh>>
       ELSE IF ok
       THEN /\ spc' = "serving"
            /\ UNCHANGED <<crashLogs, agentCh>>
       ELSE /\ spc' = "returned"
            /\ crashLogs' = crashLogs + 1
            /\ agentCh' = Append(agentCh, <<"close">>)
    /\ UNCHANGED <<inst, cancelled, cacheVars, agentCtx, agentStarts, agentTasks,
                   routes, srvClosed, closeErr, awpc, waiters>>
    /\ UNCHANGED reqVars
    /\ UNCHANGED extVars

\* The server goroutine: ListenAndServe is called.  On a closed server it
\* returns ErrServerClosed at once; otherwise it binds (ok) or fails to.
ServerListen(ok) ==
    /\ inst = "agent"
    /\ spc = "spawned"
    /\ IF srvClosed
       THEN /\ spc' = "returned"
            /\ UNCHANGED crashLogs
       ELSE IF ok
       THEN /\ spc' = "serving"
            /\ UNCHANGED crashLogs
       ELSE /\ spc' = "returned"
            /\ crashLogs' = crashLogs + 1
    /\ UNCHANGED <<inst, cancelled, cacheVars, agentCtx, agentStarts, agentTasks,
                   routes, srvClosed, closeErr, awpc, agentCh, waiters>>
    /\ UNCHANGED reqVars
    /\ UNCHANGED extVars

\* The server goroutine: ListenAndServe returns while serving, with
\* ErrServerClosed after Close (not logged) or with an accept error (logged).
ServerReturn ==
    /\ inst = "agent"
    /\ spc = "serving"
    /\ spc' = "returned"
    /\ crashLogs' = IF srvClosed THEN crashLogs ELSE crashLogs + 1
    /\ UNCHANGED <<inst, cancelled, cacheVars, agentCtx, agentStarts, agentTasks,
                   routes, srvClosed, closeErr, awpc, agentCh, waiters>>
    /\ UNCHANGED reqVars
    /\ UNCHANGED extVars

\* HTTPAgent.contextCancelHandler: <-s.ctx.Done() returns and s.server.Close()
\* is evaluated; its error e comes from closing a listener.
AgentWatcherObserve(e) ==
    /\ inst = "agent"
    /\ awpc = "waitDone"
    /\ cancelled
    /\ e \in (IF spc = "serving" THEN {"nil", "err"} ELSE {"nil"})
    /\ srvClosed' = TRUE
    /\ closeErr' = e
    /\ awpc' = "send"
    /\ UNCHANGED <<inst, cancelled, cacheVars, agentCtx, agentStarts, agentTasks,
                   routes, spc, crashLogs, agentCh, waiters>>
    /\ UNCHANGED reqVars
    /\ UNCHANGED extVars

\* HTTPAgent.contextCancelHandler: s.waitCh <- err, an unbuffered send that
\* completes when a task is receiving.
AgentWatcherSend(w) ==
    /\ inst = "agent"
    /\ awpc = "send"
    /\ waiters[w] = "recv"
    /\ waiters' = [waiters EXCEPT ![w] = closeErr]
    /\ agentCh' = Append(agentCh, <<"send", closeErr>>)
    /\ awpc' = "deferred"
    /\ UNCHANGED <<inst, cancelled, cacheVars, agentCtx, agentStarts, agentTasks,
                   routes, spc, crashLogs, srvClosed, closeErr>>
    /\ UNCHANGED reqVars
    /\ UNCHANGED extVars

\* Faulty variant of AgentWatcherClose: the channel is closed without waiting for the
\* send to complete.
AgentWatcherCloseEarly ==
    /\ inst = "agent"
    /\ awpc \in {"send", "deferred"}
    /\ agentCh' = Append(agentCh, <<"close">>)
    /\ awpc' = "done"
    /\ UNCHANGED <<inst, cancelled, cacheVars, agentCtx, agentStarts, agentTasks,
                   routes, spc, crashLogs, srvClosed, closeErr, waiters>>
    /\ UNCHANGED reqVars
    /\ UNCHANGED extVars

\* HTTPAgent.contextCancelHandler: the deferred calls, ending with close(s.waitCh).
AgentWatcherClose ==
    /\ inst = "agent"
    /\ awpc = "deferred"
    /\ agentCh' = Append(agentCh, <<"close">>)
    /\ awpc' = "done"
    /\ UNCHANGED <<inst, cancelled, cacheVars, agentCtx, agentStarts, agentTasks,
                   routes, spc, crashLogs, srvClosed, closeErr, waiters>>
    /\ UNCHANGED reqVars
    /\ UNCHANGED extVars

---------------------------------------------------------------------------
(* Tasks using Wait(), and the context *)

\* The completion channel of the instance: Cache.Wait / HTTPAgent.Wait.
WaitCh == IF inst = "cache" THEN cacheCh ELSE agentCh

\* A task evaluates <-Wait() and blocks on the channel (valid before Start).
WaitCall(w) ==
    /\ waiters[w] = "idle"
    /\ waiters' = [waiters EXCEPT ![w] = "recv"]
    /\ UNCHANGED <<inst, cancelled, cacheVars, agentVars>>
    /\ UNCHANGED reqVars
    /\ UNCHANGED extVars

\* A receive on the closed channel returns the zero value.
WaiterRecvClosed(w) ==
    /\ waiters[w] = "recv"
    /\ Closed(WaitCh)
    /\ waiters' = [waiters EXCEPT ![w] = "closed"]
    /\ UNCHANGED <<inst, cancelled, cacheVars, agentVars>>
    /\ UNCHANGED reqVars
    /\ UNCHANGED extVars

\* The context is cancelled (an interrupt, or the cancel function).
Cancel ==
    /\ ~cancelled
    /\ cancelled' = TRUE
    /\ UNCHANGED <<inst, cacheVars, agentVars, waiters>>
    /\ UNCHANGED reqVars
    /\ UNCHANGED extVars

---------------------------------------------------------------------------
(* HTTPAgent request handling *)

JSONType == "application/json"

\* Content-Type header values of a request ("" when the header is absent).
ContentTypes == {JSONType, "text/plain", "application/json; charset=utf-8", ""}

Paths == {"/", "/price", "/prices", "/other"}

\* Request bodies: wf says the body is well-formed JSON; a well-formed body
\* may carry a "Pairs" member and a "Pair" member, each absent, of a type
\* that does not fit the request struct ("bad"), or a value ("ok").
MultiValues == {<<>>, <<PairAB>>, <<PairAB, PairCD>>}
SingleValues == {EmptyPair, PairAB, Pair("A", "")}
MemberKinds == {"absent", "bad", "ok"}
MalformedBody ==
    [wf |-> FALSE, pairsKind |-> "absent", pairs |-> <<>>,
     pairKind |-> "absent", pair |-> EmptyPair]
Bodies ==
    {MalformedBody} \cup
    {[wf |-> TRUE, pairsKind |-> ks, pairs |-> ps, pairKind |-> k1, pair |-> p1] :
        ks \in MemberKinds, ps \in MultiValues, k1 \in MemberKinds, p1 \in SingleValues}

\* Bodies in which a member without a value has the zero value.
NormalBodies ==
    {b \in Bodies : /\ (b.pairsKind # "ok" => b.pairs = <<>>)
                    /\ (b.pairKind # "ok" => b.pair = EmptyPair)}

Requests == [path : Paths, ctype : ContentTypes, body : NormalBodies]

\* The mappings priceProvider.Prices can return: pair -> kind of price, where
\* "nan" is a price json.Marshal rejects.
PriceKinds == {"num", "nan"}
PriceMaps == UNION {[D -> PriceKinds] : D \in SUBSET {PairAB, PairCD}}

\* The handler initServer registered for each pattern.
PatternHandler(p) ==
    IF p = "/price" THEN "handlePrice" ELSE "handlePrices"

\* http.DefaultServeMux: an exact pattern wins, "/" catches everything else.
Route(rs, path) ==
    IF Registered(rs, path) THEN PatternHandler(path)
    ELSE IF Registered(rs, "/") THEN PatternHandler("/")
    ELSE "notFound"

\* Faulty variant of CTypeOK: the media type is compared without its parameters.
CTypeOKIgnoringParams(ct) ==
    ct \in {JSONType, "application/json; charset=utf-8"}

\* r.Header.Get("Content-Type") != "application/json"
CTypeOK(ct) == ct = JSONType

\* provider.Pair.Empty
Empty(p) == p.Base = "" /\ p.Quote = ""

\* json.NewDecoder(r.Body).Decode(&p) into priceRequest{Pair} (handlePrice) or
\* pricesRequest{Pairs} (handlePrices): members the target lacks are ignored,
\* members the body lacks keep their zero value, a member of the wrong type
\* is an error.
Decode(h, b) ==
    IF ~b.wf THEN [err |-> TRUE, pairs |-> <<>>]
    ELSE IF h = "handlePrice"
    THEN IF b.pairKind = "bad" THEN [err |-> TRUE, pairs |-> <<>>]
         ELSE [err |-> FALSE, pairs |-> <<b.pair>>]
    ELSE IF b.pairsKind = "bad" THEN [err |-> TRUE, pairs |-> <<>>]
         ELSE [err |-> FALSE, pairs |-> b.pairs]

\* Faulty variant of NothingRequested: only handlePrices short-circuits.
NothingRequestedMultiOnly(h, ps) ==
    IF h = "handlePrice" THEN FALSE ELSE Len(ps) = 0

\* p.Pair.Empty() (handlePrice); p.Pairs == nil || len(p.Pairs) == 0 (handlePrices)
NothingRequested(h, ps) ==
    IF h = "handlePrice" THEN Empty(ps[1]) ELSE Len(ps) = 0

Chunk(k, t, p) == [kind |-> k, text |-> t, pair |-> p]
Raw(t) == Chunk("raw", t, EmptyPair)

EmptyResp == [status |-> 0, body |-> <<>>]

\* http.Error(w, msg, code)
HttpError(r, msg, code) ==
    [status |-> IF r.status = 0 THEN code ELSE r.status,
     body |-> Append(r.body, Raw(msg))]

\* A write to the http.ResponseWriter: the first one sends the header with 200.
WriteChunk(r, c) ==
    [status |-> IF r.status = 0 THEN 200 ELSE r.status,
     body |-> Append(r.body, c)]

\* io.WriteString(w, s)
WriteString(r, s) == WriteChunk(r, Raw(s))

\* The handler returns: the server sends the header with 200 if none was sent.
Finish(r) == [r EXCEPT !.status = IF r.status = 0 THEN 200 ELSE r.status]

MsgNotJSON == "Content-Type header is not application/json"
MsgDecode == "decode error"
BodyEmpty == "{}"
BodyGetFailed == "{\"error\":\"failed to get prices\"}"
BodyCheckFailed == "{\"error\":\"failed to check prices\"}"
BodyMarshalFailed == "{\"error\":\"failed to marshal json\"}"

\* Faulty variant of ProviderFailed: the failure is answered with http.Error and 500.
ProviderFailed500(r) == Finish(HttpError(r, BodyGetFailed, 500))

\* The response of a handler whose provider call failed.
ProviderFailed(r) == Finish(WriteString(r, BodyGetFailed))

\* The response of a handler whose hook rejected the prices.
HookFailed(r) == Finish(WriteString(r, BodyCheckFailed))

\* The server accepts a request and the mux dispatches it.  The handlers keep
\* nothing from one request to the next, so a behaviour follows one request.
Receive(q) ==
    /\ rpc = "idle"
    /\ spc = "serving"
    /\ Route(routes, q.path) # "notFound"
    /\ req' = q
    /\ handler' = Route(routes, q.path)
    /\ rpc' = "check"
    /\ resp' = EmptyResp
    /\ bodyRead' = FALSE
    /\ calls' = <<>>
    /\ rpairs' = <<>>
    /\ prices' = <<>>
    /\ toWrite' = {}
    /\ UNCHANGED lifeVars
    /\ UNCHANGED extVars

\* handlePrice / handlePrices: the Content-Type check.
CheckContentType ==
    /\ rpc = "check"
    /\ IF CTypeOK(req.ctype)
       THEN /\ rpc' = "decode"
            /\ UNCHANGED resp
       ELSE /\ rpc' = "done"
            /\ resp' = Finish(HttpError(resp, MsgNotJSON, 415))
    /\ UNCHANGED <<req, handler, bodyRead, calls, rpairs, prices, toWrite>>
    /\ UNCHANGED lifeVars
    /\ UNCHANGED extVars

\* handlePrice / handlePrices: decoding the body, and the empty request.
DecodeBody ==
    /\ rpc = "decode"
    /\ bodyRead' = TRUE
    /\ LET d == Decode(handler, req.body) IN
       IF d.err
       THEN /\ rpc' = "done"
            /\ resp' = Finish(HttpError(resp, MsgDecode, 400))
            /\ UNCHANGED rpairs
       ELSE IF NothingRequested(handler, d.pairs)
       THEN /\ rpc' = "done"
            /\ resp' = Finish(WriteString(resp, BodyEmpty))
            /\ UNCHANGED rpairs
       ELSE /\ rpc' = "provider"
            /\ rpairs' = d.pairs
            /\ UNCHANGED resp
    /\ UNCHANGED <<req, handler, calls, prices, toWrite>>
    /\ UNCHANGED lifeVars
    /\ UNCHANGED extVars

\* handlePrice / handlePrices: s.priceProvider.Prices(...) fails (ok = FALSE)
\* or returns the mapping m.
CallProvider(ok, m) ==
    /\ rpc = "provider"
    /\ calls' = Append(calls, <<"provider", rpairs, ok>>)
    /\ IF ok
       THEN /\ prices' = m
            /\ rpc' = "hook"
            /\ UNCHANGED resp
       ELSE /\ rpc' = "done"
            /\ resp' = ProviderFailed(resp)
            /\ UNCHANGED prices
    /\ UNCHANGED <<req, handler, bodyRead, rpairs, toWrite>>
    /\ UNCHANGED lifeVars
    /\ UNCHANGED extVars

\* Faulty variant of CallHook: the rejection is answered but the handler
\* does not return and goes on to write the prices.
CallHookNoReturn(ok) ==
    /\ rpc = "hook"
    /\ calls' = Append(calls, <<"hook", rpairs, ok>>)
    /\ resp' = IF ok THEN resp ELSE WriteString(resp, BodyCheckFailed)
    /\ IF handler = "handlePrice"
       THEN /\ rpc' = "single"
            /\ UNCHANGED toWrite
       ELSE /\ rpc' = IF DOMAIN prices = {} THEN "flush" ELSE "write"
            /\ toWrite' = DOMAIN prices
    /\ UNCHANGED <<req, handler, bodyRead, rpairs, prices>>
    /\ UNCHANGED lifeVars
    /\ UNCHANGED extVars

\* handlePrice / handlePrices: s.priceHook.Check(prices).
CallHook(ok) ==
    /\ rpc = "hook"
    /\ calls' = Append(calls, <<"hook", rpairs, ok>>)
    /\ IF ~ok
       THEN /\ rpc' = "done"
            /\ resp' = HookFailed(resp)
            /\ UNCHANGED toWrite
       ELSE IF handler = "handlePrice"
       THEN /\ rpc' = "single"
            /\ UNCHANGED <<resp, toWrite>>
       ELSE /\ rpc' = IF DOMAIN prices = {} THEN "flush" ELSE "write"
            /\ toWrite' = DOMAIN prices
            /\ UNCHANGED resp
    /\ UNCHANGED <<req, handler, bodyRead, rpairs, prices>>
    /\ UNCHANGED lifeVars
    /\ UNCHANGED extVars

\* handlePrice: the lookup of the pair and json.Marshal of its record.
WriteSingle ==
    /\ rpc = "single"
    /\ LET p == rpairs[1] IN
       resp' = IF p \notin DOMAIN prices
               THEN Finish(WriteString(resp, BodyEmpty))
               ELSE IF prices[p] = "nan"
               THEN Finish(WriteString(resp, BodyEmpty))
               ELSE Finish(WriteChunk(resp, Chunk("record", "", p)))
    /\ rpc' = "done"
    /\ UNCHANGED <<req, handler, bodyRead, calls, rpairs, prices, toWrite>>
    /\ UNCHANGED lifeVars
    /\ UNCHANGED extVars

\* The marshaller the handlers share.  Write(w, item) either emits the
\* record to w at once (line-delimited output) or holds it, with its
\* writer, until Flush (one JSON document per Flush, the format cmd_agent.go
\* asks for); Flush() names no writer: it emits everything held, each
\* record to the writer it was written with, and a failing Flush emits
\* nothing and forgets what it held.
Formats == {"ndjson", "json"}

Item(w, c) == [w |-> w, chunk |-> c]

MarshallerHold(fmt, buf, w, c) ==
    IF fmt = "json" THEN Append(buf, Item(w, c)) ELSE buf

MarshallerEmit(fmt, c) ==
    IF fmt = "json" THEN <<>> ELSE <<c>>

RECURSIVE HeldFor(_, _)
HeldFor(buf, w) ==
    IF buf = <<>> THEN <<>>
    ELSE IF Head(buf).w = w THEN <<Head(buf).chunk>> \o HeldFor(Tail(buf), w)
    ELSE HeldFor(Tail(buf), w)

WriteChunks(r, cs) ==
    IF cs = <<>> THEN r
    ELSE [status |-> IF r.status = 0 THEN 200 ELSE r.status, body |-> r.body \o cs]

\* The writer of the one request SpecReq follows.
W == "w"

\* Faulty variant of WriteRecord: a failed Write ends the loop.
WriteRecordBreaks(p, ok, ok2) ==
    /\ rpc = "write"
    /\ p \in toWrite
    /\ IF ok
       THEN /\ ok2
            /\ calls' = Append(calls, <<"write", <<p>>, TRUE>>)
            /\ resp' = WriteChunks(resp, MarshallerEmit(mformat, Chunk("record", "", p)))
            /\ mbuf' = MarshallerHold(mformat, mbuf, W, Chunk("record", "", p))
            /\ toWrite' = toWrite \ {p}
       ELSE /\ calls' = calls \o << <<"write", <<p>>, FALSE>>, <<"writeError", <<p>>, ok2>> >>
            /\ resp' = IF ok2
                       THEN WriteChunks(resp, MarshallerEmit(mformat, Chunk("errorRecord", "", p)))
                       ELSE resp
            /\ mbuf' = IF ok2
                       THEN MarshallerHold(mformat, mbuf, W, Chunk("errorRecord", "", p))
                       ELSE mbuf
            /\ toWrite' = {}
    /\ rpc' = IF toWrite' = {} THEN "flush" ELSE "write"
    /\ UNCHANGED <<req, handler, bodyRead, rpairs, prices, mformat>>
    /\ UNCHANGED lifeVars
    /\ UNCHANGED sideVars

\* handlePrices: one iteration of `for _, p := range prices` (a Go map is
\* ranged over in any order): Write of the price, and on its failure Write
\* of the error, whose own failure is dropped.
WriteRecord(p, ok, ok2) ==
    /\ rpc = "write"
    /\ p \in toWrite
    /\ IF ok
       THEN /\ ok2
            /\ calls' = Append(calls, <<"write", <<p>>, TRUE>>)
            /\ resp' = WriteChunks(resp, MarshallerEmit(mformat, Chunk("record", "", p)))
            /\ mbuf' = MarshallerHold(mformat, mbuf, W, Chunk("record", "", p))
       ELSE /\ calls' = calls \o << <<"write", <<p>>, FALSE>>, <<"writeError", <<p>>, ok2>> >>
            /\ resp' = IF ok2
                       THEN WriteChunks(resp, MarshallerEmit(mformat, Chunk("errorRecord", "", p)))
                       ELSE resp
            /\ mbuf' = IF ok2
                       THEN MarshallerHold(mformat, mbuf, W, Chunk("errorRecord", "", p))
                       ELSE mbuf
    /\ toWrite' = toWrite \ {p}
    /\ rpc' = IF toWrite \ {p} = {} THEN "flush" ELSE "write"
    /\ UNCHANGED <<req, handler, bodyRead, rpairs, prices, mformat>>
    /\ UNCHANGED lifeVars
    /\ UNCHANGED sideVars

\* Faulty variant of Flush: the error body replaces what was written.
FlushOverwrites(ok) ==
    /\ rpc = "flush"
    /\ calls' = Append(calls, <<"flush", <<>>, ok>>)
    /\ resp' = IF ok THEN Finish(WriteChunks(resp, HeldFor(mbuf, W)))
               ELSE [status |-> 200, body |-> <<Raw(BodyMarshalFailed)>>]
    /\ mbuf' = <<>>
    /\ rpc' = "done"
    /\ UNCHANGED <<req, handler, bodyRead, rpairs, prices, toWrite, mformat>>
    /\ UNCHANGED lifeVars
    /\ UNCHANGED sideVars

\* handlePrices: s.marshaller.Flush() and the error body on its failure.
Flush(ok) ==
    /\ rpc = "flush"
    /\ calls' = Append(calls, <<"flush", <<>>, ok>>)
    /\ resp' = IF ok THEN Finish(WriteChunks(resp, HeldFor(mbuf, W)))
               ELSE Finish(WriteString(resp, BodyMarshalFailed))
    /\ mbuf' = <<>>
    /\ rpc' = "done"
    /\ UNCHANGED <<req, handler, bodyRead, rpairs, prices, toWrite, mformat>>
    /\ UNCHANGED lifeVars
    /\ UNCHANGED sideVars

---------------------------------------------------------------------------
(* Specification of the lifecycle *)

\* No request is in the handlers.
InitRequest ==
    /\ req = [path |-> "/", ctype |-> "", body |-> MalformedBody]
    /\ handler = "none"
    /\ rpc = "idle"
    /\ resp = EmptyResp
    /\ bodyRead = FALSE
    /\ calls = <<>>
    /\ rpairs = <<>>
    /\ prices = <<>>
    /\ toWrite = {}

\* The marshaller holds nothing.
InitMarshaller ==
    /\ mformat \in Formats
    /\ mbuf = <<>>

\* The handlers serve no concurrent requests.
ConcReqs == {"r1", "r2"}

ConcIdle ==
    [pc |-> "idle", prices |-> {}, toWrite |-> {}, written |-> {},
     resp |-> EmptyResp, flushed |-> "none", dropped |-> {}]

InitSide ==
    /\ creq = [r \in ConcReqs |-> ConcIdle]
    /\ a2Ctx = "nil"
    /\ a2Starts = <<>>
    /\ a2Tasks = 0
    /\ cachePrices = <<>>
    /\ cpc = "none"
    /\ cerr = "nil"
    /\ exitCode = 0
    /\ cmodels = 0
    /\ cmdLog = <<>>
    /\ agentCmdPc = "none"
    /\ agentCmdRet = "none"
    /\ svcPc = "none"
    /\ svcErr = "none"

\* The format `gofer agent` constructs its marshaller with.
AgentFormat == "json"

Init ==
    /\ inst \in {"cache", "agent"}
    /\ cancelled = FALSE
    /\ cfgPairs \in SeqsUpTo(CfgPairSet, MaxPairs)
    /\ (inst = "agent" => cfgPairs = <<>>)
    /\ cacheCtx = "nil"
    /\ cacheStarts = <<>>
    /\ cacheTasks = 0
    /\ tickerStarted = FALSE
    /\ ticks = 0
    /\ bpc = "none"
    /\ bidx = 1
    /\ cycCalls = <<>>
    /\ cycOut = <<>>
    /\ cycLog = <<>>
    /\ cwpc = "none"
    /\ cacheCh = <<>>
    /\ agentCtx = "nil"
    /\ agentStarts = <<>>
    /\ agentTasks = 0
    /\ routes = <<>>
    /\ spc = "none"
    /\ crashLogs = 0
    /\ srvClosed = FALSE
    /\ closeErr = "none"
    /\ awpc = "none"
    /\ agentCh = <<>>
    /\ waiters = [w \in Waiters |-> "idle"]
    /\ InitRequest
    /\ InitMarshaller
    /\ mformat = AgentFormat
    /\ InitSide

Next ==
    \/ \E c \in CtxArgs : CacheStart(c)
    \/ BroadcasterDone
    \/ BroadcasterTick
    \/ \E out \in PriceOutcomes : BroadcasterUpdate(out)
    \/ CacheWatcherObserve
    \/ CacheWatcherClose
    \/ \E c \in CtxArgs : AgentStart(c)
    \/ \E ok \in BOOLEAN : ServerListen(ok)
    \/ ServerReturn
    \/ \E e \in {"nil", "err"} : AgentWatcherObserve(e)
    \/ \E w \in Waiters : AgentWatcherSend(w)
    \/ AgentWatcherClose
    \/ \E w \in Waiters : WaitCall(w)
    \/ \E w \in Waiters : WaiterRecvClosed(w)
    \/ Cancel

Spec == Init /\ [][Next]_vars

---------------------------------------------------------------------------
(* Specification of request handling: an HTTPAgent that was started with a *)
(* live context and whose server is serving.                               *)

InitReq ==
    /\ inst = "agent"
    /\ cancelled = FALSE
    /\ cfgPairs = <<>>
    /\ cacheCtx = "nil"
    /\ cacheStarts = <<>>
    /\ cacheTasks = 0
    /\ tickerStarted = FALSE
    /\ ticks = 0
    /\ bpc = "none"
    /\ bidx = 1
    /\ cycCalls = <<>>
    /\ cycOut = <<>>
    /\ cycLog = <<>>
    /\ cwpc = "none"
    /\ cacheCh = <<>>
    /\ agentCtx = "ctx"
    /\ agentStarts = << <<"ctx", "ok">> >>
    /\ agentTasks = 2
    /\ routes = AgentPatterns
    /\ spc = "serving"
    /\ crashLogs = 0
    /\ srvClosed = FALSE
    /\ closeErr = "none"
    /\ awpc = "waitDone"
    /\ agentCh = <<>>
    /\ waiters = [w \in Waiters |-> "idle"]
    /\ InitRequest
    /\ InitMarshaller
    /\ InitSide

NextReq ==
    \/ \E q \in Requests : Receive(q)
    \/ CheckContentType
    \/ DecodeBody
    \/ \E ok \in BOOLEAN, m \in PriceMaps : CallProvider(ok, m)
    \/ \E ok \in BOOLEAN : CallHook(ok)
    \/ WriteSingle
    \/ \E p \in {PairAB, PairCD}, ok \in BOOLEAN, ok2 \in BOOLEAN : WriteRecord(p, ok, ok2)
    \/ \E ok \in BOOLEAN : Flush(ok)

SpecReq == InitReq /\ [][NextReq]_vars

---------------------------------------------------------------------------
(* Specification of two HTTPAgent instances in one process.  Each has its  *)
(* own ctx field and http.Server, but initServer registers the handlers    *)
(* with http.HandleFunc, on the one http.DefaultServeMux of the process.   *)

\* Start(c) on the second instance.
Agent2Start(c) ==
    /\ inst = "agent"
    /\ Len(a2Starts) < MaxStarts
    /\ LET res == AgentStartCheck(a2Ctx, c)
           mux == InitServer(routes)
       IN IF res # "ok"
          THEN /\ a2Starts' = Append(a2Starts, <<c, res>>)
               /\ UNCHANGED <<a2Ctx, routes, a2Tasks>>
          ELSE IF mux = "panic"
          THEN /\ a2Starts' = Append(a2Starts, <<c, "panic">>)
               /\ a2Ctx' = c
               /\ UNCHANGED <<routes, a2Tasks>>
          ELSE /\ a2Starts' = Append(a2Starts, <<c, "ok">>)
               /\ a2Ctx' = c
               /\ routes' = mux
               /\ a2Tasks' = a2Tasks + 2
    /\ UNCHANGED <<inst, cancelled, cacheVars, agentCtx, agentStarts, agentTasks,
                   spc, crashLogs, srvClosed, closeErr, awpc, agentCh, waiters>>
    /\ UNCHANGED reqVars
    /\ UNCHANGED marshVars
    /\ UNCHANGED <<concVars, snapVars, cmdVars, agentCmdVars>>

InitTwo == Init /\ inst = "agent"

NextTwo ==
    \/ \E c \in CtxArgs : AgentStart(c)
    \/ \E c \in CtxArgs : Agent2Start(c)
    \/ \E ok \in BOOLEAN : ServerListen(ok)
    \/ Cancel

SpecTwo == InitTwo /\ [][NextTwo]_vars

---------------------------------------------------------------------------
(* Specification of concurrent requests: the server runs every request in  *)
(* its own goroutine, and all handlers use the one marshaller of the       *)
(* HTTPAgent.  The requests are multi-pair requests; their steps up to the  *)
(* hook touch nothing shared and are taken as one.                         *)

\* handlePrices up to the range loop, for request r: the request passes the
\* pre-checks, the provider returns prices for the pairs in D and the hook
\* accepts them.
ConcServe(r, D) ==
    /\ spc = "serving"
    /\ creq[r].pc = "idle"
    /\ creq' = [creq EXCEPT ![r] =
                  [@ EXCEPT !.pc = IF D = {} THEN "flush" ELSE "write",
                            !.prices = D,
                            !.toWrite = D]]
    /\ UNCHANGED marshVars
    /\ UNCHANGED lifeVars
    /\ UNCHANGED reqVars
    /\ UNCHANGED <<twoVars, snapVars, cmdVars, agentCmdVars>>

\* handlePrices, one iteration of the range loop of request r.  The record
\* of the price the provider returned to r for p carries r's name.
ConcWrite(r, p, ok, ok2) ==
    /\ creq[r].pc = "write"
    /\ p \in creq[r].toWrite
    /\ ok => ok2
    /\ LET c == IF ok THEN Chunk("record", r, p) ELSE Chunk("errorRecord", r, p)
           emitted == ok \/ ok2
       IN /\ mbuf' = IF emitted THEN MarshallerHold(mformat, mbuf, r, c) ELSE mbuf
          /\ creq' = [creq EXCEPT ![r] =
                [@ EXCEPT !.toWrite = @ \ {p},
                          !.written = IF ok THEN @ \cup {p} ELSE @,
                          !.pc = IF creq[r].toWrite \ {p} = {} THEN "flush" ELSE "write",
                          !.resp = IF emitted
                                   THEN WriteChunks(@, MarshallerEmit(mformat, c))
                                   ELSE @]]
    /\ UNCHANGED mformat
    /\ UNCHANGED lifeVars
    /\ UNCHANGED reqVars
    /\ UNCHANGED <<twoVars, snapVars, cmdVars, agentCmdVars>>

\* The writers of the records the marshaller holds.
HeldWriters(buf) == {buf[i].w : i \in DOMAIN buf}

\* handlePrices, s.marshaller.Flush() of request r and the error body on its
\* failure.  Flush() takes no writer: it acts on all the marshaller holds.
ConcFlush(r, ok) ==
    /\ creq[r].pc = "flush"
    /\ creq' = [q \in ConcReqs |->
                  IF q = r
                  THEN [creq[r] EXCEPT
                          !.pc = "done",
                          !.flushed = IF ok THEN "ok" ELSE "fail",
                          !.dropped = IF ok THEN {} ELSE HeldWriters(mbuf),
                          !.resp = IF ok
                                   THEN Finish(WriteChunks(@, HeldFor(mbuf, r)))
                                   ELSE Finish(WriteString(@, BodyMarshalFailed))]
                  ELSE [creq[q] EXCEPT
                          !.resp = IF ok THEN WriteChunks(@, HeldFor(mbuf, q)) ELSE @]]
    /\ mbuf' = <<>>
    /\ UNCHANGED mformat
    /\ UNCHANGED lifeVars
    /\ UNCHANGED reqVars
    /\ UNCHANGED <<twoVars, snapVars, cmdVars, agentCmdVars>>

NextConc ==
    \/ \E r \in ConcReqs, D \in SUBSET {PairAB, PairCD} : ConcServe(r, D)
    \/ \E r \in ConcReqs, p \in {PairAB, PairCD}, ok \in BOOLEAN, ok2 \in BOOLEAN :
          ConcWrite(r, p, ok, ok2)
    \/ \E r \in ConcReqs, ok \in BOOLEAN : ConcFlush(r, ok)

SpecConc == InitReq /\ [][NextConc]_vars

---------------------------------------------------------------------------
(* Specification of the pairs command: RunE of NewPairsCmd.  The command   *)
(* builds neither a Cache nor an HTTPAgent; its services come from         *)
(* ClientServices, and of the lifecycle state it only touches the context. *)

\* An entry of the command's history.
Ev(e, d) == <<e, d>>

\* LoadFiles, ClientServices and services.Start: the first of them that
\* fails (fail # "none") makes RunE return its error before any defer is
\* registered.
CmdSetup(fail) ==
    /\ cpc = "none"
    /\ cmdLog' = Append(cmdLog, Ev("setup", fail))
    /\ IF fail = "none"
       THEN /\ cpc' = "parse"
            /\ cerr' = "nil"
       ELSE /\ cpc' = "returned"
            /\ cerr' = "setupErr"
    /\ UNCHANGED <<exitCode, cmodels>>
    /\ UNCHANGED lifeVars
    /\ UNCHANGED reqVars
    /\ UNCHANGED marshVars
    /\ UNCHANGED <<concVars, twoVars, snapVars, agentCmdVars>>

\* pairs, err := provider.NewPairs(args...); on failure `return err` runs
\* the deferred calls.
CmdParse(ok) ==
    /\ cpc = "parse"
    /\ cmdLog' = Append(cmdLog, Ev("parse", IF ok THEN "ok" ELSE "fail"))
    /\ cerr' = IF ok THEN "nil" ELSE "parseErr"
    /\ cpc' = IF ok THEN "models" ELSE "cancel"
    /\ UNCHANGED <<exitCode, cmodels>>
    /\ UNCHANGED lifeVars
    /\ UNCHANGED reqVars
    /\ UNCHANGED marshVars
    /\ UNCHANGED <<concVars, twoVars, snapVars, agentCmdVars>>

\* models, err := services.PriceProvider.Models(pairs...): n models, or a
\* failure.
CmdModels(ok, n) ==
    /\ cpc = "models"
    /\ cmdLog' = Append(cmdLog, Ev("models", IF ok THEN "ok" ELSE "fail"))
    /\ cerr' = IF ok THEN "nil" ELSE "providerErr"
    /\ cmodels' = IF ok THEN n ELSE 0
    /\ cpc' = IF ok /\ n > 0 THEN "write" ELSE "cancel"
    /\ UNCHANGED exitCode
    /\ UNCHANGED lifeVars
    /\ UNCHANGED reqVars
    /\ UNCHANGED marshVars
    /\ UNCHANGED <<concVars, twoVars, snapVars, agentCmdVars>>

\* One iteration of `for _, p := range models`: Write to stdout, and on its
\* failure Write of mErr to stderr; err and the exit code are not touched.
CmdWriteModel(ok) ==
    /\ cpc = "write"
    /\ cmdLog' = IF ok THEN Append(cmdLog, Ev("stdout", "ok"))
                 ELSE cmdLog \o <<Ev("stdout", "fail"), Ev("stderr", "marshalErr")>>
    /\ cmodels' = cmodels - 1
    /\ cpc' = IF cmodels = 1 THEN "cancel" ELSE "write"
    /\ UNCHANGED <<cerr, exitCode>>
    /\ UNCHANGED lifeVars
    /\ UNCHANGED reqVars
    /\ UNCHANGED marshVars
    /\ UNCHANGED <<concVars, twoVars, snapVars, agentCmdVars>>

\* The deferred call registered last runs first: ctxCancel().
CmdCancel ==
    /\ cpc = "cancel"
    /\ cancelled' = TRUE
    /\ cmdLog' = Append(cmdLog, Ev("cancel", ""))
    /\ cpc' = "wait"
    /\ UNCHANGED <<cerr, exitCode, cmodels>>
    /\ UNCHANGED <<inst, cacheVars, agentVars, waiters>>
    /\ UNCHANGED reqVars
    /\ UNCHANGED marshVars
    /\ UNCHANGED <<concVars, twoVars, snapVars, agentCmdVars>>

\* Faulty variant of CmdWait: the services' error replaces err.
CmdWaitOverwrites(sErr) ==
    /\ cpc = "wait"
    /\ cmdLog' = Append(cmdLog, Ev("wait", sErr))
    /\ cerr' = sErr
    /\ cpc' = "report"
    /\ UNCHANGED <<exitCode, cmodels>>
    /\ UNCHANGED lifeVars
    /\ UNCHANGED reqVars
    /\ UNCHANGED marshVars
    /\ UNCHANGED <<concVars, twoVars, snapVars, agentCmdVars>>

\* if sErr := <-services.Wait(); err == nil { err = sErr }
CmdWait(sErr) ==
    /\ cpc = "wait"
    /\ cmdLog' = Append(cmdLog, Ev("wait", sErr))
    /\ cerr' = IF cerr = "nil" THEN sErr ELSE cerr
    /\ cpc' = "report"
    /\ UNCHANGED <<exitCode, cmodels>>
    /\ UNCHANGED lifeVars
    /\ UNCHANGED reqVars
    /\ UNCHANGED marshVars
    /\ UNCHANGED <<concVars, twoVars, snapVars, agentCmdVars>>

\* The deferred call registered first:
\* if err != nil { exitCode = 1; Write(os.Stderr, err) }
CmdReport ==
    /\ cpc = "report"
    /\ IF cerr # "nil"
       THEN /\ exitCode' = 1
            /\ cmdLog' = cmdLog \o <<Ev("exit", "1"), Ev("stderr", cerr)>>
       ELSE /\ UNCHANGED <<exitCode, cmdLog>>
    /\ cpc' = "flush"
    /\ UNCHANGED <<cerr, cmodels>>
    /\ UNCHANGED lifeVars
    /\ UNCHANGED reqVars
    /\ UNCHANGED marshVars
    /\ UNCHANGED <<concVars, twoVars, snapVars, agentCmdVars>>

\* _ = services.Marshaller.Flush(); err = nil; RunE returns.
CmdFlush(ok) ==
    /\ cpc = "flush"
    /\ cmdLog' = Append(cmdLog, Ev("flush", IF ok THEN "ok" ELSE "fail"))
    /\ cerr' = "nil"
    /\ cpc' = "returned"
    /\ UNCHANGED <<exitCode, cmodels>>
    /\ UNCHANGED lifeVars
    /\ UNCHANGED reqVars
    /\ UNCHANGED marshVars
    /\ UNCHANGED <<concVars, twoVars, snapVars, agentCmdVars>>

InitPairs == Init /\ inst = "agent"

\* Cancel: an interrupt cancels the context of signal.NotifyContext.
NextPairs ==
    \/ \E fail \in {"none", "load", "services", "start"} : CmdSetup(fail)
    \/ \E ok \in BOOLEAN : CmdParse(ok)
    \/ \E ok \in BOOLEAN, n \in 0..MaxModels : CmdModels(ok, n)
    \/ \E ok \in BOOLEAN : CmdWriteModel(ok)
    \/ CmdCancel
    \/ \E sErr \in {"nil", "serviceErr"} : CmdWait(sErr)
    \/ CmdReport
    \/ \E ok \in BOOLEAN : CmdFlush(ok)
    \/ Cancel

SpecPairs == InitPairs /\ [][NextPairs]_vars

---------------------------------------------------------------------------
(* Lifecycle under the scheduler's fairness: a shutdown watcher that can   *)
(* take a step eventually takes it, and so does a receiver blocked on a    *)
(* closed channel.  Start, Wait, ticks and cancellation are up to the      *)
(* environment.                                                            *)

Fairness ==
    /\ WF_vars(CacheWatcherObserve)
    /\ WF_vars(CacheWatcherClose)
    /\ WF_vars(\E e \in {"nil", "err"} : AgentWatcherObserve(e))
    /\ WF_vars(\E w \in Waiters : AgentWatcherSend(w))
    /\ WF_vars(AgentWatcherClose)
    /\ \A w \in Waiters : WF_vars(WaiterRecvClosed(w))

InitFair == Init /\ Len(cfgPairs) <= MaxFairPairs

FairSpec == InitFair /\ [][Next]_vars /\ Fairness

\* The same for every goroutine Start spawns: the broadcaster loop and the
\* server goroutine also take the steps they can take (provider calls
\* return; a closed server makes ListenAndServe return).  Whether any task
\* ever calls Wait() stays up to the environment.
TaskFairness ==
    /\ Fairness
    /\ WF_vars(BroadcasterDone)
    /\ WF_vars(\E out \in PriceOutcomes : BroadcasterUpdate(out))
    /\ WF_vars(\E ok \in BOOLEAN : ServerListen(ok))
    /\ WF_vars(srvClosed /\ ServerReturn)

FairSpecTasks == InitFair /\ [][Next]_vars /\ TaskFairness

---------------------------------------------------------------------------
(* Specification of the agent command: RunE of NewAgentCmd.  It starts the *)
(* client services and one HTTPAgent on the context of                     *)
(* signal.NotifyContext, whose cancel function it drops: only an interrupt *)
(* (Cancel) cancels.  The command is the one task receiving from the       *)
(* HTTPAgent's Wait(); in the lifecycle it is the waiter CmdTask.          *)

CmdTask == "w1"

\* LoadFiles, ClientServices and services.Start: the first of them that
\* fails (fail # "none") makes RunE return its error.
AgentCmdSetup(fail) ==
    /\ agentCmdPc = "none"
    /\ IF fail = "none"
       THEN /\ agentCmdPc' = "start"
            /\ svcPc' = "running"
            /\ UNCHANGED agentCmdRet
       ELSE /\ agentCmdPc' = "returned"
            /\ agentCmdRet' = "setupErr"
            /\ UNCHANGED svcPc
    /\ UNCHANGED svcErr
    /\ UNCHANGED lifeVars
    /\ UNCHANGED reqVars
    /\ UNCHANGED marshVars
    /\ UNCHANGED <<concVars, twoVars, snapVars, cmdVars>>

\* err = httpAgent.Start(ctx) has returned: if err != nil { return err }
AgentCmdStarted ==
    /\ agentCmdPc = "start"
    /\ agentStarts # <<>>
    /\ IF agentStarts[1][2] = "ok"
       THEN /\ agentCmdPc' = "waitServices"
            /\ UNCHANGED agentCmdRet
       ELSE /\ agentCmdPc' = "returned"
            /\ agentCmdRet' = agentStarts[1][2]
    /\ UNCHANGED <<svcPc, svcErr>>
    /\ UNCHANGED lifeVars
    /\ UNCHANGED reqVars
    /\ UNCHANGED marshVars
    /\ UNCHANGED <<concVars, twoVars, snapVars, cmdVars>>

\* The client services begin to stop: because their context is cancelled,
\* or, at any time, on their own.  They are not part of the repository;
\* all that is taken of them is that they stop once cancelled.
ServicesStop ==
    /\ svcPc = "running"
    /\ svcPc' = "stopping"
    /\ UNCHANGED <<agentCmdPc, agentCmdRet, svcErr>>
    /\ UNCHANGED lifeVars
    /\ UNCHANGED reqVars
    /\ UNCHANGED marshVars
    /\ UNCHANGED <<concVars, twoVars, snapVars, cmdVars>>

\* The client services have stopped: their Wait() channel yields e.
ServicesEnd(e) ==
    /\ svcPc = "stopping"
    /\ svcPc' = "ended"
    /\ svcErr' = e
    /\ UNCHANGED <<agentCmdPc, agentCmdRet>>
    /\ UNCHANGED lifeVars
    /\ UNCHANGED reqVars
    /\ UNCHANGED marshVars
    /\ UNCHANGED <<concVars, twoVars, snapVars, cmdVars>>

\* <-services.Wait() yields; the value is dropped.
ServicesYield ==
    /\ agentCmdPc = "waitServices"
    /\ svcPc = "ended"
    /\ agentCmdPc' = "waitAgent"
    /\ UNCHANGED <<agentCmdRet, svcPc, svcErr>>
    /\ UNCHANGED lifeVars
    /\ UNCHANGED reqVars
    /\ UNCHANGED marshVars
    /\ UNCHANGED <<concVars, twoVars, snapVars, cmdVars>>

\* Faulty variant of AgentCmdReturn: the received value is dropped and nil
\* is returned.
AgentCmdReturnsNil ==
    /\ agentCmdPc = "waitAgent"
    /\ waiters[CmdTask] \in {"nil", "err", "closed"}
    /\ agentCmdRet' = "nil"
    /\ agentCmdPc' = "returned"
    /\ UNCHANGED <<svcPc, svcErr>>
    /\ UNCHANGED lifeVars
    /\ UNCHANGED reqVars
    /\ UNCHANGED marshVars
    /\ UNCHANGED <<concVars, twoVars, snapVars, cmdVars>>

\* return <-httpAgent.Wait(): the receive has completed (a receive from the
\* closed channel would give nil).
AgentCmdReturn ==
    /\ agentCmdPc = "waitAgent"
    /\ waiters[CmdTask] \in {"nil", "err", "closed"}
    /\ agentCmdRet' = IF waiters[CmdTask] = "closed" THEN "nil" ELSE waiters[CmdTask]
    /\ agentCmdPc' = "returned"
    /\ UNCHANGED <<svcPc, svcErr>>
    /\ UNCHANGED lifeVars
    /\ UNCHANGED reqVars
    /\ UNCHANGED marshVars
    /\ UNCHANGED <<concVars, twoVars, snapVars, cmdVars>>

InitAgentCmd == Init /\ inst = "agent"

\* The command calls httpAgent.Start(ctx) once, and evaluates
\* <-httpAgent.Wait() only after <-services.Wait() has yielded.
NextAgentCmd ==
    \/ \E fail \in {"none", "load", "services", "start"} : AgentCmdSetup(fail)
    \/ agentCmdPc = "start" /\ agentStarts = <<>> /\ AgentStart("ctx")
    \/ AgentCmdStarted
    \/ ServicesStop
    \/ \E e \in {"nil", "err"} : ServicesEnd(e)
    \/ ServicesYield
    \/ agentCmdPc = "waitAgent" /\ WaitCall(CmdTask)
    \/ AgentCmdReturn
    \/ \E ok \in BOOLEAN : ServerListen(ok)
    \/ ServerReturn
    \/ \E e \in {"nil", "err"} : AgentWatcherObserve(e)
    \/ AgentWatcherSend(CmdTask)
    \/ AgentWatcherClose
    \/ Cancel

\* Every goroutine and the command itself take the steps they can take,
\* and the services stop once the context is cancelled.
AgentCmdFairness ==
    /\ TaskFairness
    /\ WF_vars(AgentCmdStarted)
    /\ WF_vars(cancelled /\ ServicesStop)
    /\ WF_vars(\E e \in {"nil", "err"} : ServicesEnd(e))
    /\ WF_vars(ServicesYield)
    /\ WF_vars(agentCmdPc = "waitAgent" /\ WaitCall(CmdTask))
    /\ WF_vars(AgentCmdReturn)

SpecAgentCmd == InitAgentCmd /\ [][NextAgentCmd]_vars /\ AgentCmdFairness

---------------------------------------------------------------------------
(* Properties *)

\* Results of the calls of Start on the instance, and what Start has spawned.
Starts == IF inst = "cache" THEN cacheStarts ELSE agentStarts
Tasks == IF inst = "cache" THEN cacheTasks ELSE agentTasks
OkCount(st) == Cardinality({i \in 1..Len(st) : st[i][2] = "ok"})
StartedOk == OkCount(Starts) > 0

\* C1: once Start has succeeded on an instance, every later Start on it
\* returns "service can be started only once", and the instance never has
\* more than the goroutines and the routes of that one successful Start.
C1_StartOnlyOnce ==
    /\ \A i, j \in 1..Len(Starts) :
          (i < j /\ Starts[i][2] = "ok") => Starts[j][2] = ErrOnce
    /\ OkCount(Starts) <= 1
    /\ Tasks = 2 * OkCount(Starts)
    /\ (inst = "agent" => routes = (IF StartedOk THEN AgentPatterns ELSE <<>>))

\* C1 witness: an agent whose Start succeeded and was then called twice more.
C1_Witness ==
    /\ inst = "agent"
    /\ Len(agentStarts) = 3
    /\ agentStarts[1][2] = "ok"
    /\ agentStarts[2] = <<"ctx", ErrOnce>>
    /\ agentStarts[3] = <<"nil", ErrOnce>>

\* C2: after a successful Start, once the context is cancelled a task that
\* is receiving from Wait() eventually receives.
C2_WaitYieldsAfterCancel ==
    \A w \in Waiters :
        (StartedOk /\ cancelled /\ waiters[w] = "recv") ~> Received(w)

\* C2 witness: a waiter on a cache has received after cancellation, one tick
\* taken and the broadcaster in the middle of the cycle.
C2_Witness ==
    /\ inst = "cache"
    /\ cancelled
    /\ ticks = 1
    /\ bpc = "update"
    /\ Received("w1")

\* C3: the completion channel yields nothing (no send, no close, no waiter
\* has received) while the context is not cancelled; an agent whose server
\* goroutine ended with a crash stays started with its watcher waiting.
C3_NoYieldBeforeCancel ==
    ~cancelled =>
        /\ \A w \in Waiters : ~Received(w)
        /\ cacheCh = <<>>
        /\ agentCh = <<>>
        /\ (crashLogs > 0 => agentCtx = "ctx" /\ awpc = "waitDone")

\* C3 witness: the server failed to bind, the context is live, a task waits.
C3_Witness ==
    /\ inst = "agent"
    /\ crashLogs = 1
    /\ spc = "returned"
    /\ ~cancelled
    /\ waiters["w1"] = "recv"

\* C4 as stated: the channel of either component carries exactly one value
\* and is then closed, so a closed channel has carried one value.
C4_ExactlyOneValueThenClose ==
    /\ NumCloses(WaitCh) <= 1
    /\ NumSends(WaitCh) <= 1
    /\ (Closed(WaitCh) => NumSends(WaitCh) = 1 /\ WaitCh[Len(WaitCh)] = <<"close">>)

\* C4 amended: the channel is closed at most once and nothing is sent after
\* the close; the agent's channel carries exactly one sent value, the result
\* of closing the server, before its close, and is closed only after a
\* waiter received that value; the cache's channel carries no sent value, it
\* is only closed.
C4_ChannelProtocol ==
    /\ cacheCh \in {<<>>, << <<"close">> >>}
    /\ agentCh \in {<<>>, << <<"send", closeErr>> >>,
                    << <<"send", closeErr>>, <<"close">> >>}
    /\ (agentCh # <<>> => closeErr \in {"nil", "err"})
    /\ (Closed(agentCh) => \E w \in Waiters : waiters[w] = closeErr)

\* C4 witness: the agent's channel carried the close error and was closed.
C4_Witness ==
    /\ agentCh = << <<"send", "err">>, <<"close">> >>
    /\ waiters["w2"] = "err"

\* C5 as stated: when a waiter has received, the background work has ended:
\* the cache's broadcaster loop has exited, the agent's server goroutine has
\* returned.
C5_ReceivedAfterDrain ==
    \A w \in Waiters :
        Received(w) =>
            /\ (inst = "cache" => bpc = "exited")
            /\ (inst = "agent" => spc = "returned")

\* C6 as stated: all waiters observe the same terminal value; when closing
\* the server returned an error, every waiter that received holds it.
C6_SameTerminalValue ==
    /\ \A v, w \in Waiters :
          (Received(v) /\ Received(w)) => Observed(v) = Observed(w)
    /\ \A w \in Waiters :
          (Received(w) /\ closeErr = "err") => Observed(w) = "err"

\* C7: Start with a nil context on an instance not yet started returns
\* "context must not be nil" and leaves the instance as constructed; Start
\* with a context then still succeeds.
C7_NilContextRejected ==
    /\ \A i \in 1..Len(Starts) :
          (\A j \in 1..(i - 1) : Starts[j][2] # "ok") =>
              /\ (Starts[i][1] = "nil" => Starts[i][2] = ErrNilCtx)
              /\ (Starts[i][1] = "ctx" => Starts[i][2] = "ok")
    /\ (OkCount(Starts) = 0 =>
          /\ cacheCtx = "nil" /\ agentCtx = "nil"
          /\ Tasks = 0
          /\ ~tickerStarted
          /\ bpc = "none" /\ cwpc = "none"
          /\ spc = "none" /\ awpc = "none"
          /\ routes = <<>>)

\* C7 witness: Start(nil) failed twice, then Start(ctx) succeeded.
C7_Witness ==
    /\ inst = "cache"
    /\ cacheStarts = << <<"nil", ErrNilCtx>>, <<"nil", ErrNilCtx>>, <<"ctx", "ok">> >>
    /\ bpc = "select"

\* C8: in a polling cycle the provider is asked for each configured pair
\* once, in the configured order, whatever the earlier outcomes; a failed
\* call or a tick with an error marker logs one warning, any other outcome
\* one info entry; after the last pair the loop is back at its select, which
\* it leaves only on cancellation.
C8_CycleVisitsEveryPair ==
    /\ Len(cycCalls) = Len(cycOut)
    /\ Len(cycLog) = Len(cycCalls)
    /\ Len(cycCalls) <= Len(cfgPairs)
    /\ cycCalls = SubSeq(cfgPairs, 1, Len(cycCalls))
    /\ \A i \in 1..Len(cycLog) :
          cycLog[i] = <<(IF cycOut[i] \in {"fail", "tickError"} THEN "warn" ELSE "info"),
                        cfgPairs[i]>>
    /\ (bpc = "update" => bidx = Len(cycCalls) + 1 /\ bidx <= Len(cfgPairs))
    /\ (bpc \in {"select", "exited"} /\ ticks > 0 => cycCalls = cfgPairs)
    /\ (bpc = "exited" => cancelled)

\* C8 witness: the first pair's call failed, the second pair was still
\* fetched and logged, and the loop waits for the next tick.
C8_Witness ==
    /\ cfgPairs = <<PairAB, PairCD>>
    /\ ticks = 1
    /\ ~cancelled
    /\ bpc = "select"
    /\ cycOut = <<"fail", "ok">>
    /\ cycLog = << <<"warn", PairAB>>, <<"info", PairCD>> >>

\* C9: a request whose Content-Type is not exactly application/json is
\* answered 415 on every endpoint, without reading the body and without a
\* call to the provider, the hook or the marshaller.
C9_WrongContentType ==
    (rpc # "idle" /\ req.ctype # "application/json") =>
        /\ rpc \in {"check", "done"}
        /\ calls = <<>>
        /\ ~bodyRead
        /\ (rpc = "done" => resp.status = 415)

\* C9 witness: a single-pair request with a media type parameter and a
\* well-formed body was answered 415.
C9_Witness ==
    /\ rpc = "done"
    /\ req.path = "/price"
    /\ req.ctype = "application/json; charset=utf-8"
    /\ req.body.pairKind = "ok"
    /\ req.body.pair = PairAB
    /\ resp.status = 415

\* The body does not decode into the request struct of the path's endpoint.
Undecodable(path, b) ==
    \/ ~b.wf
    \/ (path = "/price" /\ b.pairKind = "bad")
    \/ (path # "/price" /\ b.pairsKind = "bad")

\* C10: the status of a response is 415 when the Content-Type is not
\* application/json, 400 when it is and the body does not decode, and 200
\* otherwise, whatever the provider, the hook and the marshaller did.
C10_StatusFromPreChecks ==
    /\ (rpc = "done" =>
          resp.status = (IF req.ctype # "application/json" THEN 415
                         ELSE IF Undecodable(req.path, req.body) THEN 400
                         ELSE 200))
    /\ (rpc \notin {"idle", "done"} => resp.status \in {0, 200})

\* C10 witness: the provider and the hook succeeded, a Write and the Flush
\* failed, and the status is 200.
C10_Witness ==
    /\ rpc = "done"
    /\ resp.status = 200
    /\ Len(calls) = 5
    /\ calls[3][1] = "write"
    /\ calls[4][1] = "writeError"
    /\ calls[5][1] = "flush"
    /\ resp.body[Len(resp.body)] = Raw(BodyMarshalFailed)


---------------------------------------------------------------------------
(* Properties of the request pipeline *)

\* Positions in `calls` of the calls of the collaborator operation `name`.
CallsOf(name) == {i \in DOMAIN calls : calls[i][1] = name}

\* Records the marshaller or handlePrice has produced for the request:
\* those in the response and those the marshaller still holds.
RecordChunks ==
    {resp.body[i] : i \in {j \in DOMAIN resp.body : resp.body[j].kind # "raw"}}
    \cup {mbuf[i].chunk : i \in DOMAIN mbuf}

\* C11: the pipeline is gated.  The hook is called only after the provider
\* call of the same request succeeded, and a price record is written (the
\* marshaller is called at all) only after the hook accepted the prices.
\* When the provider fails the hook is not called and the whole body is
\* exactly {"error":"failed to get prices"}; when the hook fails no record
\* is written and the whole body is exactly {"error":"failed to check prices"}.
C11_GatedPipeline ==
    /\ \A i \in CallsOf("hook") :
          \E j \in CallsOf("provider") : j < i /\ calls[j][3] /\ calls[j][2] = calls[i][2]
    /\ (RecordChunks # {} \/ CallsOf("write") \cup CallsOf("writeError") \cup CallsOf("flush") # {})
          => \E i \in CallsOf("hook") : calls[i][3]
    /\ (\E j \in CallsOf("provider") : ~calls[j][3])
          => /\ CallsOf("hook") = {}
             /\ rpc = "done"
             /\ resp.body = <<Raw("{\"error\":\"failed to get prices\"}")>>
             /\ RecordChunks = {}
    /\ (\E i \in CallsOf("hook") : ~calls[i][3])
          => /\ rpc = "done"
             /\ resp.body = <<Raw("{\"error\":\"failed to check prices\"}")>>
             /\ RecordChunks = {}
             /\ CallsOf("write") \cup CallsOf("writeError") \cup CallsOf("flush") = {}

\* The hook rejected the prices the provider had returned for two pairs.
C11_Witness ==
    /\ rpc = "done"
    /\ Len(calls) = 2
    /\ calls[1] = <<"provider", rpairs, TRUE>>
    /\ calls[2] = <<"hook", rpairs, FALSE>>
    /\ DOMAIN prices = {PairAB, PairCD}
    /\ resp.body = <<Raw("{\"error\":\"failed to check prices\"}")>>


\* The request has the JSON content type and a body that decodes to nothing
\* to price: no pairs or no "Pairs" member on the multi-pair endpoints, the
\* empty pair or no "Pair" member on the single-pair endpoint.
AsksForNothing ==
    /\ req.ctype = "application/json"
    /\ req.body.wf
    /\ IF req.path = "/price"
       THEN req.body.pairKind # "bad" /\ req.body.pair = EmptyPair
       ELSE req.body.pairsKind # "bad" /\ req.body.pairs = <<>>

\* C12: a well-typed request that asks for nothing is answered with status
\* 200 and the body exactly {}, and neither the provider nor the hook nor
\* the marshaller is called for it.
C12_EmptyRequest ==
    (rpc # "idle" /\ AsksForNothing)
        => /\ calls = <<>>
           /\ mbuf = <<>>
           /\ rpc \in {"check", "decode", "done"}
           /\ rpc = "done" => resp = [status |-> 200, body |-> <<Raw("{}")>>]

\* Both kinds of empty request have been answered: the empty pair on
\* /price, and a body without "Pairs" on a multi-pair path.
C12_Witness ==
    /\ rpc = "done"
    /\ AsksForNothing
    /\ bodyRead
    /\ resp.body = <<Raw("{}")>>
    /\ \/ req.path = "/price" /\ req.body.pairKind = "ok"
       \/ req.path = "/prices" /\ req.body.pairsKind = "absent"


\* The single-pair handler has finished a request whose provider call and
\* hook both succeeded.
SingleServed ==
    /\ rpc = "done"
    /\ req.path = "/price"
    /\ Len(calls) = 2
    /\ calls[1][3]
    /\ calls[2][3]

\* C13: on the single-pair endpoint, after the provider and the hook
\* succeeded, a result mapping without an entry for the requested pair is
\* answered with status 200 and the body exactly {} (whatever other pairs
\* the mapping holds), and a mapping with the entry is answered with the
\* flattened record of exactly that pair.
C13_SingleLookup ==
    SingleServed =>
        /\ resp.status = 200
        /\ resp.body = IF req.body.pair \in DOMAIN prices
                       THEN <<Chunk("record", "", req.body.pair)>>
                       ELSE <<Raw("{}")>>


\* The multi-pair handler is past the provider call and the hook.
MultiServing ==
    /\ handler = "handlePrices"
    /\ \E i \in CallsOf("hook") : calls[i][3]

\* Positions of the Write calls for the price of pair p.
WritesOf(p) == {i \in CallsOf("write") : calls[i][2] = <<p>>}

\* C17: on the multi-pair endpoint, after the provider and the hook
\* succeeded, Write is attempted exactly once for every price of the result
\* whatever earlier Writes returned; a failed Write is followed at once by
\* one Write of that error, a successful one by none; and Flush is called
\* exactly once, after the Write of the last price.
C17_WriteEveryPriceThenFlush ==
    MultiServing =>
        /\ \A i \in CallsOf("write") : calls[i][2][1] \in DOMAIN prices
        /\ \A q \in DOMAIN prices : Cardinality(WritesOf(q)) <= 1
        /\ rpc \in {"flush", "done"}
              => \A q \in DOMAIN prices : Cardinality(WritesOf(q)) = 1
        /\ \A i \in CallsOf("write") :
              IF calls[i][3]
              THEN i + 1 \in DOMAIN calls => calls[i + 1][1] # "writeError"
              ELSE /\ i + 1 \in DOMAIN calls
                   /\ calls[i + 1][1] = "writeError"
                   /\ calls[i + 1][2] = calls[i][2]
        /\ \A i \in CallsOf("writeError") :
              /\ calls[i - 1][1] = "write"
              /\ ~calls[i - 1][3]
        /\ CallsOf("flush") = IF rpc = "done" THEN {Len(calls)} ELSE {}

\* The Write of the first of two prices failed, its error was written, the
\* second price was written all the same, and Flush was called last.
C17_Witness ==
    /\ rpc = "done"
    /\ MultiServing
    /\ DOMAIN prices = {PairAB, PairCD}
    /\ Len(calls) = 6
    /\ calls[3][1] = "write" /\ ~calls[3][3]
    /\ calls[4][1] = "writeError"
    /\ calls[5][1] = "write" /\ calls[5][3]
    /\ calls[5][2] # calls[3][2]
    /\ calls[6][1] = "flush"


\* The sequence a is an initial part of the sequence b.
IsPrefix(a, b) == Len(a) <= Len(b) /\ SubSeq(b, 1, Len(a)) = a

\* What the handler itself (not the marshaller) has written to a body.
HandlerChunks(b) == SelectSeq(b, LAMBDA c : c.kind = "raw")

\* C18: the step in which handlePrices calls Flush and returns.  When Flush
\* fails the handler appends exactly one {"error":"failed to marshal json"}
\* after whatever the response already holds and removes nothing of it;
\* when Flush succeeds the handler adds nothing to what the marshaller
\* wrote.  Either way the status is 200.
C18_FlushFailureAppends ==
    [][(rpc = "flush" /\ rpc' = "done") =>
          /\ IsPrefix(resp.body, resp'.body)
          /\ resp'.status = 200
          /\ resp.status \in {0, 200}
          /\ IF calls'[Len(calls')][3]
             THEN HandlerChunks(resp'.body) = HandlerChunks(resp.body)
             ELSE /\ HandlerChunks(resp'.body)
                       = Append(HandlerChunks(resp.body),
                                Raw("{\"error\":\"failed to marshal json\"}"))
                  /\ resp'.body[Len(resp'.body)]
                       = Raw("{\"error\":\"failed to marshal json\"}")]_vars

\* Flush failed after a record had reached the response: the body is that
\* record followed by the error body.
C18_Witness ==
    /\ rpc = "done"
    /\ MultiServing
    /\ ~calls[Len(calls)][3]
    /\ Len(resp.body) = 2
    /\ resp.body[1].kind = "record"
    /\ resp.body[2] = Raw("{\"error\":\"failed to marshal json\"}")
    /\ resp.status = 200


---------------------------------------------------------------------------
(* Properties of concurrent requests *)

\* The records in the response of request r.
RecordsIn(r) ==
    {creq[r].resp.body[i] :
        i \in {j \in DOMAIN creq[r].resp.body : creq[r].resp.body[j].kind # "raw"}}

---------------------------------------------------------------------------
(* Termination of the background tasks *)

\* Every goroutine the successful Start spawned has returned.
TasksExited ==
    IF inst = "cache"
    THEN bpc = "exited" /\ cwpc = "done"
    ELSE spc = "returned" /\ awpc = "done"

\* C15: once the context of a successfully started instance is cancelled,
\* every background task Start spawned eventually exits (the Cache's
\* broadcaster and watcher, the HTTPAgent's server task and watcher),
\* whether or not any task ever receives from Wait().
C15_AllTasksExit == (StartedOk /\ cancelled) ~> TasksExited


---------------------------------------------------------------------------
(* Two instances *)

\* The first call of Start with a live context in the history st succeeded.
FirstLiveStartOk(st) ==
    \A i \in DOMAIN st :
        (st[i][1] = "ctx" /\ \A j \in 1..(i - 1) : st[j][1] = "nil") => st[i][2] = "ok"

\* C16: two HTTPAgent instances do not collide on routing state.  Start on
\* either instance never panics on routes the other has registered, and on
\* each instance the first Start with a live context succeeds whether or
\* not the other instance was started before.
C16_InstancesIndependent ==
    /\ \A i \in DOMAIN agentStarts : agentStarts[i][2] # "panic"
    /\ \A i \in DOMAIN a2Starts : a2Starts[i][2] # "panic"
    /\ FirstLiveStartOk(agentStarts)
    /\ FirstLiveStartOk(a2Starts)


---------------------------------------------------------------------------
(* The Cache's snapshot *)

\* C19: the Cache keeps a snapshot.  For every pair whose fetch succeeded
\* in the running or last polling cycle, the Cache's pair-to-price mapping
\* holds the price fetched in that cycle.
C19_SnapshotHolds ==
    inst = "cache" =>
        \A i \in DOMAIN cycOut :
            cycOut[i] = "ok" =>
                /\ cycCalls[i] \in DOMAIN cachePrices
                /\ cachePrices[cycCalls[i]] = ticks


---------------------------------------------------------------------------
(* The pairs command *)

\* Positions in the command's history of the entries of event e.
EvIdx(e) == {i \in DOMAIN cmdLog : cmdLog[i][1] = e}

\* The services were started: the deferred calls are registered.
ServicesStarted == \E i \in EvIdx("setup") : cmdLog[i][2] = "none"

\* The error of the command proper: a pair that did not parse or a provider
\* failure ("nil": none).
EarlierError ==
    IF \E i \in EvIdx("parse") : cmdLog[i][2] = "fail" THEN "parseErr"
    ELSE IF \E i \in EvIdx("models") : cmdLog[i][2] = "fail" THEN "providerErr"
    ELSE "nil"

\* Positions at which the teardown wrote an error to stderr.
ReportIdx == {i \in EvIdx("stderr") : cmdLog[i][2] # "marshalErr"}

\* C20: teardown of the pairs command.  Once the services were started, on
\* every path (pair parse failure, provider failure, success) the command
\* cancels the context, then receives from the services' Wait(), then, if
\* there is an error, sets the exit code to 1 and writes the error to
\* stderr through the marshaller, then flushes the marshaller, exactly
\* once and last.  The services' shutdown error is what is reported only
\* when no earlier error occurred, and the exit code is 0 exactly when
\* neither kind of error occurred.
C20_TeardownOrder ==
    /\ exitCode \in {0, 1}
    /\ \A i \in EvIdx("wait") : cancelled /\ \E j \in EvIdx("cancel") : j < i
    /\ \A i \in ReportIdx \cup EvIdx("exit") \cup EvIdx("flush") :
          \E j \in EvIdx("wait") : j < i
    /\ \A i \in EvIdx("flush") : i = Len(cmdLog) /\ cpc = "returned"
    /\ exitCode = 1 <=> EvIdx("exit") # {}
    /\ (cpc = "returned" /\ ServicesStarted) =>
          /\ Cardinality(EvIdx("cancel")) = 1
          /\ Cardinality(EvIdx("wait")) = 1
          /\ Cardinality(EvIdx("flush")) = 1
          /\ LET svc == cmdLog[CHOOSE i \in EvIdx("wait") : TRUE][2]
                 expected == IF EarlierError # "nil" THEN EarlierError ELSE svc
             IN IF expected = "nil"
                THEN ReportIdx = {} /\ exitCode = 0
                ELSE /\ exitCode = 1
                     /\ Cardinality(ReportIdx) = 1
                     /\ \A i \in ReportIdx : cmdLog[i][2] = expected

\* The pairs did not parse and the services also failed to shut down: the
\* parse error was reported, the exit code is 1, the flush came last.
C20_Witness ==
    /\ cpc = "returned"
    /\ ServicesStarted
    /\ EarlierError = "parseErr"
    /\ \E i \in EvIdx("wait") : cmdLog[i][2] = "serviceErr"
    /\ \E i \in ReportIdx : cmdLog[i][2] = "parseErr"
    /\ exitCode = 1
    /\ cmdLog[Len(cmdLog)][1] = "flush"


---------------------------------------------------------------------------
(* The agent command *)

\* The client services and the HTTPAgent have both been started.
BothStarted == agentCmdPc \in {"waitServices", "waitAgent"}

\* The command returned from its last statement, return <-httpAgent.Wait().
ReturnedFromWait ==
    /\ agentCmdPc = "returned"
    /\ agentStarts # <<>>
    /\ agentStarts[1][2] = "ok"

\* C21: the agent command, once the client services and the HTTPAgent are
\* both started, does not return while the context is not cancelled; after
\* an interrupt it eventually returns (its two waits, services first, then
\* the HTTPAgent whose watcher blocks on its send until the command
\* receives, do not deadlock); and what it returns is the result of
\* closing the HTTP server.
C21_AgentCmdWaits ==
    /\ [](ReturnedFromWait =>
            /\ cancelled
            /\ srvClosed
            /\ closeErr \in {"nil", "err"}
            /\ agentCmdRet = closeErr)
    /\ [](BothStarted => agentCmdRet = "none")
    /\ ((BothStarted /\ cancelled) ~> ReturnedFromWait)

\* After an interrupt the command has returned the error of closing the
\* serving HTTP server, and the watcher and the server task have exited.
C21_Witness ==
    /\ ReturnedFromWait
    /\ cancelled
    /\ closeErr = "err"
    /\ agentCmdRet = "err"
    /\ awpc = "done"
    /\ spc = "returned"

=============================================================================
